---- MODULE Spec2Model ----
(***************************************************************************)
(* A model of the contagion simulation of src/pages/index.js (component   *)
(* Home): the agent pool, the animation loop animatePeople, the effect    *)
(* that starts and cancels it, handleReset and handleRadiusChange.        *)
(*                                                                         *)
(* Numbers are fixed-point integers:                                       *)
(*   coordinates   1e-5 degree        (0.003 degree = 300)                 *)
(*   time          milliseconds       (Date.now())                         *)
(*   speed         1e-6 per 30 ms     (0.002 = 2000)                       *)
(*   progress      1/ProgressOne      (progress 1.0 = ProgressOne)         *)
(*   rate          tenths of a percent, as toFixed(1) prints it            *)
(* Divisions round down (floor), where the program rounds to the nearest   *)
(* double.                                                                 *)
(*                                                                         *)
(* React is modelled as in a production build of React 18: an update made  *)
(* in an event handler or in an animation-frame callback is rendered and   *)
(* its effects are run before the next event or frame, and an updater      *)
(* function runs once.                                                     *)
(***************************************************************************)
EXTENDS Integers, Sequences, FiniteSets

VARIABLES
    people,             \* useState people (line 59): sequence of agents, agent id i at index i+1
    simulationActive,   \* useState simulationActive (line 61)
    infectionRadius,    \* useState infectionRadius (line 62)
    statistics,         \* useState statistics (line 63)
    animationRef,       \* useRef animationRef (line 68): last handle requested, Null if none
    lastUpdateTimeRef,  \* useRef lastUpdateTimeRef (line 69)
    connections,        \* useState connections (line 70)
    infectionHistory,   \* useState infectionHistory (line 71)
    currentTime,        \* useState currentTime (line 72), in ms
    startTimeRef,       \* useRef startTimeRef (line 73)
    maxStatsRef,        \* useRef maxStatsRef (line 74)
    rafPending,         \* the host's pending animation-frame callbacks: each the
                        \* closure animatePeople of one effect run, with its handle
    now,                \* the host clock, Date.now()
    frame,              \* the number of frames the host has produced
    populationSize,     \* the count given to generatePeople (lines 81, 309)
    thrown              \* the error that ended the mount effect or a handler, "none" if none

vars == <<people, simulationActive, infectionRadius, statistics, animationRef,
          lastUpdateTimeRef, connections, infectionHistory, currentTime,
          startTimeRef, maxStatsRef, rafPending, now, frame, populationSize,
          thrown>>

----------------------------------------------------------------------------
(* Bounds of the model *)

\* Agents in the pool (the program generates 200, lines 81 and 309).
NumPeople == 3

\* Counts given to generatePeople where the count is an input.
PopulationSizes == -1 .. NumPeople

\* Frames the host produces in a behaviour.
MaxFrames == 3

\* Elapsed ms between two host frames: a 60 Hz frame, a gap of exactly the
\* connection lifetime, and a gap (a slow frame, a background tab) long enough
\* for an agent of the higher speed to arrive and not for one of the lower.
DtChoices == {16, 2000, 14800}

\* Values the radius control delivers to handleRadiusChange.
RadiusInputs == {0, 220}

----------------------------------------------------------------------------
(* Program constants *)

Null == -1                  \* null / undefined (line 22)

LngMin == -12251000         \* SF_BOUNDS.lng.min (line 36)
LngMax == -12239000         \* SF_BOUNDS.lng.max (line 36)
LatMin == 3770000           \* SF_BOUNDS.lat.min (line 37)
LatMax == 3780000           \* SF_BOUNDS.lat.max (line 37)

InitialRadius == 300        \* useState(0.003) (line 62)
SpeedBase == 2000           \* 0.002 in speed (line 23)
SpeedRange == 2000          \* 0.002 * Math.random() in speed (line 23)
SpeedScale == 1000000       \* fixed-point scale of speed (line 23)
FrameMs == 30               \* timeDelta / 30 (line 115)
StepCapPercent == 1         \* the step cap 0.01 (line 131)
ConnectionTTL == 2000       \* connections older than 2 seconds (line 245)
FadeTime == 10000           \* colour is final after 10 seconds (line 186)
SeedInfected == 1           \* maxStatsRef seed infectedAgents (lines 75, 313)
SeedRate == 5               \* maxStatsRef seed infectionRate 0.5 (lines 76, 314)

ProgressOne == FrameMs * SpeedScale
StepCap == (ProgressOne * StepCapPercent) \div 100

FreshRed == <<255, 50, 50>>         \* 'rgb(255, 50, 50)' (lines 29, 165)
DeepMagenta == <<180, 0, 120>>      \* 'rgb(180, 0, 120)' (line 188)

----------------------------------------------------------------------------
(* Math.random(): a small linear congruential generator.  A call returns   *)
(* MathRandom(s) / RandDen and leaves the generator in RandomNext(s).  The *)
(* state the generator is in when the pool is generated, and when a frame  *)
(* draws new destinations, is any of RandomSeeds.                          *)

RandDen == 50

MathRandom(s) == s \div 32

RandomNext(s) == (5 * s + 3) % 64

RandomSeeds == 16 .. 17

RECURSIVE RandomAdvance(_, _)
RandomAdvance(s, k) == IF k = 0 THEN s ELSE RandomAdvance(RandomNext(s), k - 1)

\* The values of the calls a pool generation makes, for each seed.
DrawTable ==
    [s \in RandomSeeds |-> [k \in 0 .. (8 * NumPeople) |-> MathRandom(RandomAdvance(s, k))]]

\* The value of the k-th call (k = 0 the next one) from generator state s.
Draw(s, k) == DrawTable[s][k]

Max(a, b) == IF a >= b THEN a ELSE b
Min(a, b) == IF a <= b THEN a ELSE b

\* Math.floor(Math.random() * scale + offset)
FloorRandom(r, scale, offset) == (r * scale) \div RandDen + offset

\* RandomBetween with the offset of the range forgotten: min + random * max.
RandomBetweenUnscaled(r, lo, hi) == lo + (r * hi) \div RandDen

\* bounds.min + Math.random() * (bounds.max - bounds.min)
RandomBetween(r, lo, hi) == lo + (r * (hi - lo)) \div RandDen

RandomPoint(s, k) ==
    << RandomBetween(Draw(s, k), LngMin, LngMax),
       RandomBetween(Draw(s, k + 1), LatMin, LatMax) >>

----------------------------------------------------------------------------
(* generatePeople (lines 8-32) *)

\* The agent with id i, made by the i-th call of the map callback: eight calls
\* of Math.random(), in the order of the object literal.
NewPerson(i, s) ==
    LET k == 8 * i
    IN  [ id             |-> i,
          coordinates    |-> RandomPoint(s, k),
          destination    |-> RandomPoint(s, k + 2),
          color          |-> << FloorRandom(Draw(s, k + 4), 100, 0),
                                FloorRandom(Draw(s, k + 5), 155, 100),
                                FloorRandom(Draw(s, k + 6), 100, 0) >>,
          progress       |-> 0,
          isDestabilized |-> FALSE,
          infectionTime  |-> Null,
          speed          |-> SpeedBase + (Draw(s, k + 7) * SpeedRange) \div RandDen ]

\* generatePeople with no exception: the count taken as a valid, non-zero length.
GenerationErrorNone(count) == "none"

\* The exception generatePeople(count) ends with: Array(count) throws a
\* RangeError for a negative length (line 9), and people[0] is undefined in an
\* empty array, so the assignment of line 27 throws a TypeError.
GenerationError(count) ==
    IF count < 0 THEN "RangeError"
    ELSE IF count < 1 THEN "TypeError"
    ELSE "none"

\* PatientZero without the assignment of line 27.
PatientZeroUnmarked(person, t) ==
    [person EXCEPT !.infectionTime = t, !.color = FreshRed]

\* The first agent is destabilized at Date.now() = t.
PatientZero(person, t) ==
    [person EXCEPT !.isDestabilized = TRUE, !.infectionTime = t, !.color = FreshRed]

\* The pool of count agents, generated at time t from generator state s.
generatePeople(count, s, t) ==
    [i \in 1 .. count |->
        IF i = 1 THEN PatientZero(NewPerson(0, s), t) ELSE NewPerson(i - 1, s)]

----------------------------------------------------------------------------
(* calculateDistance (lines 93-97): the distance in whole units, rounded   *)
(* down; for an integer radius r, distance < r exactly when the real       *)
(* distance is below r.                                                    *)

RECURSIVE SqrtBetween(_, _, _)
SqrtBetween(n, lo, hi) ==
    IF lo >= hi THEN lo
    ELSE LET mid == (lo + hi + 1) \div 2
         IN  IF mid * mid <= n THEN SqrtBetween(n, mid, hi)
                               ELSE SqrtBetween(n, lo, mid - 1)

Sqrt(n) == SqrtBetween(n, 0, Min(n, 30000))

\* calculateDistance without the square root of line 96.
DistanceWithoutSqrt(point1, point2) ==
    LET dx == point1[1] - point2[1]
        dy == point1[2] - point2[2]
    IN  dx * dx + dy * dy

calculateDistance(point1, point2) ==
    LET dx == point1[1] - point2[1]
        dy == point1[2] - point2[2]
    IN  Sqrt(dx * dx + dy * dy)

----------------------------------------------------------------------------
(* animatePeople, the movement map (lines 113-147) *)

\* The arrival test of line 118 with the threshold at 2.
HasArrivedLate(progress) == progress >= 2 * ProgressOne

\* The arrival test of line 118.
HasArrived(progress) == progress >= ProgressOne

\* The step fraction of line 131 with a cap of 0.1 in place of 0.01.
StepCappedAtTenth(speed, timeDelta) == Min(speed * timeDelta, ProgressOne \div 10)

\* The step fraction of line 131, in units of 1/ProgressOne.
StepFraction(speed, timeDelta) == Min(speed * timeDelta, StepCap)

\* One coordinate moved by the step fraction towards the destination (lines 132-133).
Interpolate(from, to, step) == from + ((to - from) * step) \div ProgressOne

\* The map over prevPeople from index i on: acc is the part of updatedPeople
\* built so far, count the variable infectedCount, and k the number of calls
\* of Math.random() made so far, the generator having started in state s.
RECURSIVE MovePeople(_, _, _, _, _, _, _)
MovePeople(prevPeople, i, timeDelta, s, k, acc, count) ==
    IF i > Len(prevPeople)
    THEN [people |-> acc, infectedCount |-> count]
    ELSE LET person   == prevPeople[i]
             progress == person.progress + person.speed * timeDelta
         IN  IF HasArrived(progress)
             THEN MovePeople(prevPeople, i + 1, timeDelta, s, k + 2,
                      Append(acc, [person EXCEPT !.destination = RandomPoint(s, k),
                                                 !.progress = 0]),
                      count)
             ELSE LET step == StepFraction(person.speed, timeDelta)
                      updatedPerson ==
                          [person EXCEPT
                              !.coordinates =
                                  << Interpolate(person.coordinates[1], person.destination[1], step),
                                     Interpolate(person.coordinates[2], person.destination[2], step) >>,
                              !.progress = progress]
                  IN  MovePeople(prevPeople, i + 1, timeDelta, s, k,
                          Append(acc, updatedPerson),
                          IF updatedPerson.isDestabilized THEN count + 1 ELSE count)

----------------------------------------------------------------------------
(* animatePeople, the infection pass (lines 149-180) *)

\* The test of line 160.
WithinRadius(distance, radius) == distance < radius

\* The connection of lines 170-175 with the two agents exchanged.
ConnectionReversed(person, otherPerson, t) ==
    [ id        |-> <<otherPerson.id, person.id>>,
      source    |-> otherPerson.coordinates,
      target    |-> person.coordinates,
      timestamp |-> t ]

\* The connection of lines 170-175.
NewConnection(person, otherPerson, t) ==
    [ id        |-> <<person.id, otherPerson.id>>,
      source    |-> person.coordinates,
      target    |-> otherPerson.coordinates,
      timestamp |-> t ]

\* The inner forEach without the test of line 156.
SusceptibleUnchecked(otherPerson) == TRUE

\* Whether the inner forEach considers the agent (line 156).
IsSusceptible(otherPerson) == ~otherPerson.isDestabilized

\* The inner forEach for the source at index i, from index j on.  The pool ps
\* is changed in place, so later iterations see the agents infected earlier.
RECURSIVE InfectFrom(_, _, _, _, _, _)
InfectFrom(ps, conns, i, j, radius, t) ==
    IF j > Len(ps) THEN [people |-> ps, newConnections |-> conns]
    ELSE IF /\ IsSusceptible(ps[j])
            /\ WithinRadius(calculateDistance(ps[i].coordinates, ps[j].coordinates), radius)
         THEN InfectFrom([ps EXCEPT ![j].isDestabilized = TRUE,
                                    ![j].infectionTime = t,
                                    ![j].color = FreshRed],
                         Append(conns, NewConnection(ps[i], ps[j], t)),
                         i, j + 1, radius, t)
         ELSE InfectFrom(ps, conns, i, j + 1, radius, t)

\* Whether the outer forEach lets the agent act as a source (line 154).
IsSource(person) == person.isDestabilized

\* The outer forEach, from index i on.
RECURSIVE InfectAll(_, _, _, _, _)
InfectAll(ps, conns, i, radius, t) ==
    IF i > Len(ps) THEN [people |-> ps, newConnections |-> conns]
    ELSE IF IsSource(ps[i])
         THEN LET r == InfectFrom(ps, conns, i, 1, radius, t)
              IN  InfectAll(r.people, r.newConnections, i + 1, radius, t)
         ELSE InfectAll(ps, conns, i + 1, radius, t)

----------------------------------------------------------------------------
(* animatePeople, the colour fade (lines 182-199) *)

FadeColor(timeSinceInfection) ==
    IF timeSinceInfection > FadeTime
    THEN DeepMagenta
    ELSE << 255 - (75 * timeSinceInfection + FadeTime - 1) \div FadeTime,
            0,
            50 + (70 * timeSinceInfection) \div FadeTime >>

FadePerson(person, t) ==
    IF person.isDestabilized /\ person.infectionTime # Null /\ person.infectionTime # 0
    THEN [person EXCEPT !.color = FadeColor(t - person.infectionTime)]
    ELSE person

FadePeople(ps, t) == [i \in 1 .. Len(ps) |-> FadePerson(ps[i], t)]

----------------------------------------------------------------------------
(* animatePeople, the statistics and the history (lines 201-234) *)

RECURSIVE MaxInfected(_, _)
MaxInfected(history, i) ==
    IF i > Len(history) THEN 0
    ELSE Max(history[i].infected, MaxInfected(history, i + 1))

\* currentMaxInfected (lines 202-204), over the history the closure holds.
CurrentMaxInfected(history) ==
    IF Len(history) > 0 THEN MaxInfected(history, 1) ELSE 0

\* finalInfectedCount (line 207).
FinalInfectedCount(infectedCount, history) ==
    Max(infectedCount, CurrentMaxInfected(history))

\* (count / total * 100).toFixed(1), in tenths of a percent; a division by
\* zero gives Infinity, or NaN for 0 / 0, and toFixed prints its name.
RateToFixed(count, total) ==
    IF total = 0
    THEN IF count = 0 THEN "NaN" ELSE "Infinity"
    ELSE (2000 * count + total) \div (2 * total)

\* timeElapsed.toFixed(1) of line 231, in tenths of a second.
TimeToFixed(ms) == (ms + 50) \div 100

\* maxStatsRef.current set to the statistics of the tick, without the maxima.
StatsWithoutMax(maxStats, stats) ==
    [ infectedAgents |-> stats.infectedAgents,
      infectionRate  |-> stats.infectionRate ]

\* maxStatsRef.current after lines 217-220.
UpdateMaxStats(maxStats, stats) ==
    [ infectedAgents |-> Max(maxStats.infectedAgents, stats.infectedAgents),
      infectionRate  |-> Max(maxStats.infectionRate, stats.infectionRate) ]

\* The statistics state after setStatistics(maxStatsRef.current) (line 222):
\* the object of the ref has no totalAgents.
StatisticsOf(maxStats) ==
    [ totalAgents    |-> Null,
      infectedAgents |-> maxStats.infectedAgents,
      infectionRate  |-> maxStats.infectionRate ]

\* The point appended by lines 228-234.
HistoryPoint(timeElapsed, finalInfectedCount) ==
    [time |-> TimeToFixed(timeElapsed), infected |-> finalInfectedCount]

----------------------------------------------------------------------------
(* animatePeople, the connections (lines 239-246) *)

\* The filter of line 245 with <= for <.
IsFreshInclusive(conn, t) == t - conn.timestamp <= ConnectionTTL

\* The filter of line 245.
IsFresh(conn, t) == t - conn.timestamp < ConnectionTTL

UpdateConnections(prevConnections, newConnections, t) ==
    SelectSeq(prevConnections \o newConnections, LAMBDA conn : IsFresh(conn, t))

----------------------------------------------------------------------------
(* The host's animation frames and the effect of lines 100-258 *)

\* requestAnimationFrame returns a handle no pending callback has.  (The host
\* never repeats a handle; the program keeps a handle only in animationRef,
\* which every request overwrites, so a handle that is no longer pending can
\* be given out again.)
FreshHandle(pending) ==
    CHOOSE h \in 1 .. (Cardinality(pending) + 1) : \A cb \in pending : cb.handle # h

\* cancelAnimationFrame(handle) that cancels nothing.
CancelNoFrame(pending, handle) == pending

\* cancelAnimationFrame(handle)
CancelFrame(pending, handle) == {cb \in pending : cb.handle # handle}

\* An effect without the cleanup of lines 253-257.
CleanupWithoutCancel(pending, ref, wasActive) == pending

\* The cleanup of lines 253-257, run when the effect that set it up ran with
\* simulationActive true.
Cleanup(pending, ref, wasActive) ==
    IF wasActive /\ ref # Null /\ ref # 0 THEN CancelFrame(pending, ref) ELSE pending

\* The closure animatePeople of an effect run: the infectionRadius and the
\* infectionHistory of the render that ran the effect.
Closure(handle, radius, history) ==
    [handle |-> handle, infectionRadius |-> radius, infectionHistory |-> history]

\* A change of simulationActive or infectionRadius: the cleanup of the last
\* effect run, then the effect again (lines 100-102, 251).
RunEffect(pending, ref, wasActive, active, radius, history) ==
    LET cleaned == Cleanup(pending, ref, wasActive)
    IN  IF ~active
        THEN [rafPending |-> cleaned, animationRef |-> ref]
        ELSE LET h == FreshHandle(cleaned)
             IN  [ rafPending   |-> cleaned \cup {Closure(h, radius, history)},
                   animationRef |-> h ]

----------------------------------------------------------------------------
(* State after the component has mounted (lines 53-90) *)

\* The statistics set by lines 83-87 and 316-320.
InitialStatistics(initialPeople) ==
    [ totalAgents    |-> Len(initialPeople),
      infectedAgents |-> 1,
      infectionRate  |-> RateToFixed(1, Len(initialPeople)) ]

\* The seed of maxStatsRef (lines 74-77, 312-315).
InitialMaxStats == [infectedAgents |-> SeedInfected, infectionRate |-> SeedRate]

\* The history set by lines 88 and 321.
InitialHistory == << [time |-> 0, infected |-> 1] >>

Init ==
    \E s \in RandomSeeds :
        LET initialPeople == generatePeople(NumPeople, s, 1)
        IN  /\ now = 1
            /\ frame = 0
            /\ people = initialPeople
            /\ simulationActive = FALSE
            /\ infectionRadius = InitialRadius
            /\ statistics = InitialStatistics(initialPeople)
            /\ animationRef = Null
            /\ lastUpdateTimeRef = 1
            /\ connections = << >>
            /\ infectionHistory = InitialHistory
            /\ currentTime = 0
            /\ startTimeRef = 1
            /\ maxStatsRef = InitialMaxStats
            /\ rafPending = {}
            /\ populationSize = NumPeople
            /\ thrown = "none"

----------------------------------------------------------------------------
(* animatePeople (lines 103-249), run at time t as the callback cb, with   *)
(* the generator in state s                                                *)

animatePeople(cb, t, s) ==
    LET timeDelta     == t - lastUpdateTimeRef
        moved         == MovePeople(people, 1, timeDelta, s, 0, << >>, 0)
        infected      == InfectAll(moved.people, << >>, 1, cb.infectionRadius, t)
        updatedPeople == FadePeople(infected.people, t)
        finalInfectedCount ==
            FinalInfectedCount(moved.infectedCount, cb.infectionHistory)
        stats         == [ totalAgents    |-> Len(updatedPeople),
                           infectedAgents |-> finalInfectedCount,
                           infectionRate  |-> RateToFixed(finalInfectedCount,
                                                          Len(updatedPeople)) ]
        maxStats      == UpdateMaxStats(maxStatsRef, stats)
        timeElapsed   == t - startTimeRef
        rest          == rafPending \ {cb}
        handle        == FreshHandle(rest)
    IN  [ people           |-> updatedPeople,
          newConnections   |-> infected.newConnections,
          maxStats         |-> maxStats,
          timeElapsed      |-> timeElapsed,
          infectionHistory |-> Append(infectionHistory,
                                      HistoryPoint(timeElapsed, finalInfectedCount)),
          connections      |-> UpdateConnections(connections,
                                                 infected.newConnections, t),
          rafPending       |-> rest \cup {[cb EXCEPT !.handle = handle]},
          animationRef     |-> handle ]

\* The host produces a frame dt ms after the last one and runs a pending callback.
AnimationFrame(dt) ==
    /\ frame < MaxFrames
    /\ \E cb \in rafPending, s \in RandomSeeds :
        \E tick \in {animatePeople(cb, now + dt, s)} :
            /\ now' = now + dt
            /\ frame' = frame + 1
            /\ lastUpdateTimeRef' = now + dt
            /\ people' = tick.people
            /\ maxStatsRef' = tick.maxStats
            /\ statistics' = StatisticsOf(tick.maxStats)
            /\ currentTime' = tick.timeElapsed
            /\ infectionHistory' = tick.infectionHistory
            /\ connections' = tick.connections
            /\ rafPending' = tick.rafPending
            /\ animationRef' = tick.animationRef
            /\ UNCHANGED <<simulationActive, infectionRadius, startTimeRef,
                           populationSize, thrown>>

\* The host produces a frame while no callback is pending: only time passes.
IdleFrame(dt) ==
    /\ frame < MaxFrames
    /\ rafPending = {}
    /\ now' = now + dt
    /\ frame' = frame + 1
    /\ UNCHANGED <<people, simulationActive, infectionRadius, statistics,
                   animationRef, lastUpdateTimeRef, connections, infectionHistory,
                   currentTime, startTimeRef, maxStatsRef, rafPending,
                   populationSize, thrown>>

----------------------------------------------------------------------------
(* The control surface *)

\* The Pause/Resume button (line 404) and the effect it triggers.
ToggleSimulation ==
    LET effect == RunEffect(rafPending, animationRef, simulationActive,
                            ~simulationActive, infectionRadius, infectionHistory)
    IN  /\ simulationActive' = ~simulationActive
        /\ rafPending' = effect.rafPending
        /\ animationRef' = effect.animationRef
        /\ UNCHANGED <<people, infectionRadius, statistics, lastUpdateTimeRef,
                       connections, infectionHistory, currentTime, startTimeRef,
                       maxStatsRef, now, frame, populationSize, thrown>>

\* handleReset (lines 308-324).
HandleReset ==
    IF GenerationError(populationSize) # "none"
    THEN /\ thrown' = GenerationError(populationSize)
         /\ UNCHANGED <<people, simulationActive, infectionRadius, statistics,
                        animationRef, lastUpdateTimeRef, connections,
                        infectionHistory, currentTime, startTimeRef, maxStatsRef,
                        rafPending, now, frame, populationSize>>
    ELSE \E s \in RandomSeeds :
         LET initialPeople == generatePeople(populationSize, s, now)
         IN  /\ people' = initialPeople
             /\ connections' = << >>
             /\ maxStatsRef' = InitialMaxStats
             /\ statistics' = InitialStatistics(initialPeople)
             /\ infectionHistory' = InitialHistory
             /\ currentTime' = 0
             /\ startTimeRef' = now
             /\ UNCHANGED <<simulationActive, infectionRadius, animationRef,
                            lastUpdateTimeRef, rafPending, now, frame,
                            populationSize, thrown>>

\* The radius that handleRadiusChange stores for the input value (line 328).
AcceptedRadius(value, current) == value

\* handleRadiusChange (lines 327-329) and the effect a changed radius triggers.
HandleRadiusChange(value) ==
    LET radius == AcceptedRadius(value, infectionRadius)
        effect == RunEffect(rafPending, animationRef, simulationActive,
                            simulationActive, radius, infectionHistory)
    IN  /\ radius # infectionRadius
        /\ infectionRadius' = radius
        /\ rafPending' = effect.rafPending
        /\ animationRef' = effect.animationRef
        /\ UNCHANGED <<people, simulationActive, statistics, lastUpdateTimeRef,
                       connections, infectionHistory, currentTime, startTimeRef,
                       maxStatsRef, now, frame, populationSize, thrown>>

Next ==
    \/ \E dt \in DtChoices : AnimationFrame(dt)
    \/ \E dt \in DtChoices : IdleFrame(dt)
    \/ ToggleSimulation
    \/ HandleReset
    \/ \E value \in RadiusInputs : HandleRadiusChange(value)

Spec == Init /\ [][Next]_vars

----------------------------------------------------------------------------
(* Generation with the count as an input: the component from its first     *)
(* render, with the literal 200 of lines 81 and 309 replaced by any of     *)
(* PopulationSizes, restricted to the operations that generate a pool.     *)

\* The statistics of useState (lines 63-67).
UnmountedStatistics == [totalAgents |-> 0, infectedAgents |-> 0, infectionRate |-> 0]

\* The state of the first render (lines 53-77), before the mount effect.
GenerateInit ==
    /\ populationSize \in PopulationSizes
    /\ thrown = "none"
    /\ now = 1
    /\ frame = 0
    /\ people = << >>
    /\ simulationActive = FALSE
    /\ infectionRadius = InitialRadius
    /\ statistics = UnmountedStatistics
    /\ animationRef = Null
    /\ lastUpdateTimeRef = 1
    /\ connections = << >>
    /\ infectionHistory = << >>
    /\ currentTime = 0
    /\ startTimeRef = 1
    /\ maxStatsRef = InitialMaxStats
    /\ rafPending = {}

\* The mount effect has not run.
BeforeMount == infectionHistory = << >> /\ thrown = "none"

\* The mount effect has run to its end: the component is on the page.
Mounted == infectionHistory # << >> /\ thrown = "none"

\* The mount effect (lines 80-90): an exception of generatePeople ends it at
\* line 81, before any state is set.
MountEffect ==
    /\ BeforeMount
    /\ IF GenerationError(populationSize) # "none"
       THEN /\ thrown' = GenerationError(populationSize)
            /\ UNCHANGED <<people, statistics, infectionHistory, currentTime>>
       ELSE \E s \in RandomSeeds :
            LET initialPeople == generatePeople(populationSize, s, now)
            IN  /\ people' = initialPeople
                /\ statistics' = InitialStatistics(initialPeople)
                /\ infectionHistory' = InitialHistory
                /\ currentTime' = 0
                /\ UNCHANGED thrown
    /\ UNCHANGED <<simulationActive, infectionRadius, animationRef,
                   lastUpdateTimeRef, connections, startTimeRef, maxStatsRef,
                   rafPending, now, frame, populationSize>>

GenerateNext ==
    \/ MountEffect
    \/ Mounted /\ HandleReset
    \/ Mounted /\ \E dt \in DtChoices : IdleFrame(dt)

GenerateSpec == GenerateInit /\ [][GenerateNext]_vars

----------------------------------------------------------------------------
(* Properties *)

Agents == 1 .. NumPeople

\* A step in which animatePeople ran (it alone writes lastUpdateTimeRef, and
\* frames are at least 1 ms apart).
TickStep == lastUpdateTimeRef' # lastUpdateTimeRef

\* A step in which the host produced a frame.
FrameStep == frame' # frame

\* A step of handleReset: every other action changes frame, simulationActive
\* or infectionRadius.
ResetStep == UNCHANGED <<frame, simulationActive, infectionRadius>>

\* The square of the distance between two points.
DistanceSquared(p, q) ==
    (p[1] - q[1]) * (p[1] - q[1]) + (p[2] - q[2]) * (p[2] - q[2])

InBounds(point) ==
    /\ LngMin <= point[1] /\ point[1] <= LngMax
    /\ LatMin <= point[2] /\ point[2] <= LatMax

\* C1: no agent is both the target of one infection and the source of another
\* infection recorded in the same tick (connections recorded in one tick share
\* their timestamp; the id of a connection is <<source id, target id>>).
NoCascadeWithinTick ==
    \A a, b \in 1 .. Len(connections) :
        connections[a].timestamp = connections[b].timestamp
            => connections[a].id[2] # connections[b].id[1]

\* C2: between two resets the reported infected count and rate never decrease,
\* and the reported infected count never exceeds the population.
StatsMonotonic ==
    [][/\ statistics.infectedAgents <= NumPeople
       /\ statistics'.infectedAgents <= NumPeople
       /\ ResetStep \/ (/\ statistics'.infectedAgents >= statistics.infectedAgents
                        /\ statistics'.infectionRate >= statistics.infectionRate)]_vars

\* C2 witness: a run with at least two ticks in which the count has risen.
StatsRoseOverTicks ==
    /\ Len(infectionHistory) >= 3
    /\ statistics.infectedAgents > 1

\* C3: in a tick, a Susceptible agent whose distance to an agent Infected at
\* the start of the tick is, at the positions of that tick, strictly below the
\* current radius is Infected after the tick.
InfectionCausality ==
    [][TickStep =>
        \A a, b \in Agents :
            ( /\ people[a].isDestabilized
              /\ ~people[b].isDestabilized
              /\ infectionRadius > 0
              /\ DistanceSquared(people'[a].coordinates, people'[b].coordinates)
                    < infectionRadius * infectionRadius )
            => people'[b].isDestabilized]_vars

\* C3 witness: the last tick infected an agent that arrived in that tick.
InfectedOnArrival ==
    \E k \in 1 .. Len(connections) :
        /\ connections[k].timestamp = lastUpdateTimeRef
        /\ people[connections[k].id[2] + 1].progress = 0

\* C4: infectionTime is set exactly for the Infected agents, and between two
\* resets an Infected agent stays Infected with the same infectionTime.
InfectionIrreversible ==
    [][/\ \A i \in Agents :
            /\ (people[i].infectionTime # Null) <=> people[i].isDestabilized
            /\ (people'[i].infectionTime # Null) <=> people'[i].isDestabilized
       /\ ResetStep \/ \A i \in Agents :
            people[i].isDestabilized =>
                /\ people'[i].isDestabilized
                /\ people'[i].infectionTime = people[i].infectionTime]_vars

\* C4 witness: an agent infected by contact in one tick has been through a later tick.
InfectedThenTicked ==
    \E i \in 2 .. NumPeople :
        /\ people[i].isDestabilized
        /\ people[i].infectionTime < lastUpdateTimeRef

\* C5: right after handleReset the agent with id 0 alone is Infected, the
\* statistics show 1 infected and the rate 100/N to one decimal, the history is
\* the single point (0, 1) and there are no connections.
ResetCorrect ==
    [][ResetStep =>
        /\ Len(people') = NumPeople
        /\ \A i \in Agents : people'[i].isDestabilized <=> (people'[i].id = 0)
        /\ Cardinality({i \in Agents : people'[i].isDestabilized}) = 1
        /\ statistics'.infectedAgents = 1
        /\ maxStatsRef'.infectedAgents = 1
        /\ 2 * (NumPeople * statistics'.infectionRate - 1000) <= NumPeople
        /\ 2 * (1000 - NumPeople * statistics'.infectionRate) <= NumPeople
        /\ infectionHistory' = << [time |-> 0, infected |-> 1] >>
        /\ connections' = << >>]_vars

\* C5 witness: a reset made while running, right after a tick that followed another.
ResetWhileRunning ==
    /\ simulationActive
    /\ infectionHistory = << [time |-> 0, infected |-> 1] >>
    /\ startTimeRef = now
    /\ lastUpdateTimeRef = now
    /\ frame >= 2

\* C6: a frame the host produces while the simulation is not running changes
\* no agent, connection, statistic or history point.
PausedFramesChangeNothing ==
    [][(FrameStep /\ ~simulationActive) =>
        UNCHANGED <<people, connections, statistics, maxStatsRef, infectionHistory,
                    currentTime, lastUpdateTimeRef>>]_vars

\* C6 witness: paused after at least one tick, and a frame has passed since.
PausedAfterRunning ==
    /\ ~simulationActive
    /\ Len(infectionHistory) >= 2
    /\ now > lastUpdateTimeRef

\* C7: the dt a tick uses, now - lastUpdateTimeRef, covers no time in which the
\* simulation was not running: it is the time since the previous frame, at
\* which the last tick ran or after which the simulation was resumed.
TickDtExcludesPause ==
    [][TickStep => (now' - lastUpdateTimeRef <= now' - now)]_vars

\* C8: every agent's position and destination lie within SF_BOUNDS.
Containment ==
    \A i \in 1 .. Len(people) :
        InBounds(people[i].coordinates) /\ InBounds(people[i].destination)

\* C8 witness: after two ticks an agent has moved and an agent has arrived and
\* been given a new destination.
MovedAndArrived ==
    /\ Len(infectionHistory) >= 3
    /\ \E i \in Agents : people[i].progress = 0
    /\ \E i \in Agents : /\ people[i].progress > 0
                         /\ people[i].coordinates[1] \notin {LngMin, LngMin + (LngMax - LngMin) \div RandDen}

\* C9: after a tick at time now no connection is 2000 ms old or older, and
\* every agent infected in the tick is the target of a connection of that tick.
EdgeEviction ==
    [][TickStep =>
        /\ \A k \in 1 .. Len(connections') :
                now' - connections'[k].timestamp < ConnectionTTL
        /\ \A i \in Agents :
                (~people[i].isDestabilized /\ people'[i].isDestabilized)
                => \E k \in 1 .. Len(connections') :
                        /\ connections'[k].id[2] = people'[i].id
                        /\ connections'[k].timestamp = now']_vars

\* C9 witness: the connection of an agent infected at least 2000 ms before the
\* last tick is gone.
OldEdgeEvicted ==
    \E i \in 2 .. NumPeople :
        /\ people[i].isDestabilized
        /\ lastUpdateTimeRef - people[i].infectionTime >= ConnectionTTL
        /\ \A k \in 1 .. Len(connections) : connections[k].id[2] # people[i].id

\* C10: the radius, and the radius every pending tick will use, is positive:
\* a value <= 0 given to handleRadiusChange is not taken.
RadiusStaysPositive ==
    /\ infectionRadius > 0
    /\ \A cb \in rafPending : cb.infectionRadius > 0

\* C11: a count <= 0 produces no pool: generatePeople ends with an exception,
\* nothing is set, and no rate is ever computed over a total of zero.
GenerationRejects ==
    /\ populationSize <= 0 =>
            /\ thrown # "none" \/ BeforeMount
            /\ people = << >>
            /\ infectionHistory = << >>
            /\ statistics = UnmountedStatistics
    /\ Mounted => statistics.totalAgents > 0

\* C11 witness: the mount effect has called generatePeople(0) and it threw.
GenerationOfZeroThrew ==
    /\ populationSize = 0
    /\ thrown = "TypeError"
    /\ people = << >>

\* The agents of the pool ps that are Infected.
InfectedIn(ps) == {i \in 1 .. Len(ps) : ps[i].isDestabilized}

\* The history point a tick appended.
LastPoint(history) == history[Len(history)]

\* C12: after a tick the reported infected count is the number of agents that
\* are Infected at the end of the tick.
ReportedCountIsCurrent ==
    [][TickStep =>
        statistics'.infectedAgents = Cardinality(InfectedIn(people'))]_vars

\* C13: a tick appends exactly one history point, whose count is the reported
\* running maximum, so the counts of the history never decrease.
HistoryFollowsMaximum ==
    [][TickStep =>
        /\ Len(infectionHistory') = Len(infectionHistory) + 1
        /\ \A k \in 1 .. Len(infectionHistory) :
                infectionHistory'[k] = infectionHistory[k]
        /\ LastPoint(infectionHistory').infected = statistics'.infectedAgents
        /\ \A k \in 1 .. Len(infectionHistory) :
                infectionHistory'[k].infected <= infectionHistory'[k + 1].infected]_vars

\* C14: at a tick after a reset (handleReset alone moves startTimeRef), the
\* reported count and the count of the appended history point are at most the
\* number of Infected agents of the current pool.
ResetIsolatesRuns ==
    [][(TickStep /\ startTimeRef > 1) =>
        /\ statistics'.infectedAgents <= Cardinality(InfectedIn(people'))
        /\ LastPoint(infectionHistory').infected <= Cardinality(InfectedIn(people'))]_vars

\* The connections recorded by the tick that ended at time t.
EdgesOfTick(conns, t) == {k \in 1 .. Len(conns) : conns[k].timestamp = t}

\* C15: the connections a tick records are one-for-one with the agents it
\* infected: as many connections as new infections, each newly infected agent
\* the target of exactly one, from an Infected agent, with the two agents'
\* positions of that tick as its endpoints.
EdgesOneForOne ==
    [][TickStep =>
        LET fresh == EdgesOfTick(connections', now')
            newly == {i \in Agents : ~people[i].isDestabilized /\ people'[i].isDestabilized}
        IN  /\ Cardinality(fresh) = Cardinality(newly)
            /\ \A i \in newly :
                    Cardinality({k \in fresh : connections'[k].id[2] = people'[i].id}) = 1
            /\ \A k \in fresh :
                    \E i \in Agents : \E j \in newly :
                        /\ i # j
                        /\ people'[i].isDestabilized
                        /\ connections'[k].id = <<people'[i].id, people'[j].id>>
                        /\ connections'[k].source = people'[i].coordinates
                        /\ connections'[k].target = people'[j].coordinates]_vars

\* C15 witness: the last tick infected an agent that has two other Infected
\* agents within the radius, and recorded one connection to it.
TwoSourcesOneEdge ==
    /\ lastUpdateTimeRef = now
    /\ infectionRadius > 0
    /\ \E i \in Agents :
        /\ people[i].infectionTime = now
        /\ Cardinality({k \in EdgesOfTick(connections, now) :
                            connections[k].id[2] = people[i].id}) = 1
        /\ \E j1 \in Agents : \E j2 \in Agents :
            /\ j1 # j2
            /\ i \notin {j1, j2}
            /\ \A j \in {j1, j2} :
                /\ people[j].isDestabilized
                /\ DistanceSquared(people[j].coordinates, people[i].coordinates)
                        < infectionRadius * infectionRadius

\* The time a tick that ends at time t measures since the last tick.
TimeDeltaAt(t) == t - lastUpdateTimeRef

\* Whether the agent arrives in a tick with the given timeDelta.
Arrives(person, timeDelta) == person.progress + person.speed * timeDelta >= ProgressOne

\* A coordinate went from from to new, towards to, by at most 1% of the way
\* (the last unit is the rounding of the fixed-point position).
WithinOnePercent(from, to, new) ==
    IF to >= from
    THEN from <= new /\ 100 * (new - from) <= to - from
    ELSE new <= from /\ 100 * (from - new) <= (from - to) + 99

ArrivalKeepsProgressBelowOne ==
    [][TickStep =>
        \A i \in Agents :
            /\ 0 <= people'[i].progress
            /\ people'[i].progress < ProgressOne
            /\ IF Arrives(people[i], TimeDeltaAt(now'))
               THEN /\ people'[i].progress = 0
                    /\ InBounds(people'[i].destination)
                    /\ people'[i].coordinates = people[i].coordinates
               ELSE /\ people'[i].destination = people[i].destination
                    /\ people'[i].progress =
                            people[i].progress + people[i].speed * TimeDeltaAt(now')]_vars

\* C17 witness: the first frame ran a tick in which one agent arrived, keeping
\* its generated position, and another did not.
ArrivedInFirstTick ==
    /\ frame = 1
    /\ lastUpdateTimeRef = now
    /\ \E i \in Agents :
        /\ people[i].progress = 0
        /\ people[i].coordinates[1] \in {LngMin, LngMin + (LngMax - LngMin) \div RandDen}
        /\ people[i].coordinates[2] \in {LatMin, LatMin + (LatMax - LatMin) \div RandDen}
    /\ \E j \in Agents : people[j].progress > 0

\* The colour the given share elapsed / FadeTime of the way from the colour
\* from to the colour to, each channel within one unit of rounding.
IsBlend(color, from, to, elapsed) ==
    \A ch \in 1 .. 3 :
        LET exact == from[ch] * FadeTime + (to[ch] - from[ch]) * elapsed
        IN  /\ (color[ch] - 1) * FadeTime <= exact
            /\ exact <= (color[ch] + 1) * FadeTime

\* C18: after a tick the colour of an Infected agent is the terminal hue if
\* more than 10000 ms have passed since its infection, and otherwise the
\* blend of the fresh-infection hue and the terminal hue by elapsed / 10000;
\* an agent infected in the tick has the fresh-infection hue.
ColorFollowsElapsed ==
    [][TickStep =>
        \A i \in Agents :
            people'[i].isDestabilized =>
                LET elapsed == now' - people'[i].infectionTime
                IN  IF elapsed > FadeTime
                    THEN people'[i].color = DeepMagenta
                    ELSE /\ IsBlend(people'[i].color, FreshRed, DeepMagenta, elapsed)
                         /\ elapsed = 0 => people'[i].color = FreshRed]_vars

\* The movement map applied to the pool prev leaves the number of agents and
\* each agent's id, speed, state and infection time as they were, whatever
\* destinations are drawn.
MovementKeepsIdentity(prev, timeDelta) ==
    \A s \in RandomSeeds :
        LET moved == MovePeople(prev, 1, timeDelta, s, 0, << >>, 0).people
        IN  /\ Len(moved) = Len(prev)
            /\ \A i \in 1 .. Len(prev) :
                    /\ moved[i].id = prev[i].id
                    /\ moved[i].speed = prev[i].speed
                    /\ moved[i].isDestabilized = prev[i].isDestabilized
                    /\ moved[i].infectionTime = prev[i].infectionTime

\* C19: the movement step of a tick changes only position, progress and
\* destination; the pool keeps its agents, ids and order, and the reported
\* total is the population size after every tick.
MovementChangesOnlyMotion ==
    [][TickStep =>
        /\ MovementKeepsIdentity(people, TimeDeltaAt(now'))
        /\ Len(people') = NumPeople
        /\ \A i \in Agents : /\ people'[i].id = i - 1
                             /\ people'[i].id = people[i].id
                             /\ people'[i].speed = people[i].speed
        /\ statistics'.totalAgents = NumPeople]_vars

\* C20: at most one animation-frame callback is pending, none while the
\* simulation is paused, and the pending one is the last one requested and
\* carries the current radius.
OneTickLoop ==
    /\ Cardinality(rafPending) <= 1
    /\ ~simulationActive => rafPending = {}
    /\ \A cb \in rafPending :
            /\ cb.handle = animationRef
            /\ cb.infectionRadius = infectionRadius

\* C20 witness: the loop runs with a changed radius, restarted by an effect
\* that ran after a tick, and one callback is pending.
LoopRestartedAfterTick ==
    /\ simulationActive
    /\ infectionRadius # InitialRadius
    /\ lastUpdateTimeRef > 1
    /\ Cardinality(rafPending) = 1
    /\ \A cb \in rafPending : Len(cb.infectionHistory) >= 2

====
